---- MODULE Spec2Model ----
(***************************************************************************)
(* The span-metrics processor of modules/generator/processor/spanmetrics:  *)
(* PushSpans aggregates spans into per-key counters under a mutex, one     *)
(* lock/unlock per span; CollectMetrics sweeps stale keys and appends the  *)
(* cumulative values to a storage.Appender while holding the same mutex.   *)
(***************************************************************************)
EXTENDS Integers, Sequences, FiniteSets, TLC

(***************************************************************************)
(* Arithmetic.  A uint64 and the mantissa of a float64 do not fit TLC's    *)
(* integers, so both are numbers in base 2^15: a sequence of limbs, least  *)
(* significant first, no zero limb at the high end, <<>> for zero.  A      *)
(* non-negative float64 is <<m, e>> with value m * 2^e, m odd and below    *)
(* 2^53, and zero is <<(empty), 0>>: one representation per value, so = is *)
(* equality of float64 values.  Every value the processor computes is      *)
(* finite, non-negative and normal.                                        *)
(***************************************************************************)
Base == 2^15

RECURSIVE Pow2(_)
Pow2(k) == IF k = 0 THEN 1 ELSE 2 * Pow2(k - 1)

RECURSIVE NatToBig(_)
NatToBig(n) == IF n = 0 THEN <<>> ELSE <<n % Base>> \o NatToBig(n \div Base)

RECURSIVE Strip(_)
Strip(a) ==
    IF a = <<>> THEN <<>>
    ELSE IF a[Len(a)] = 0 THEN Strip(SubSeq(a, 1, Len(a) - 1)) ELSE a

Limb(a, i) == IF i <= Len(a) THEN a[i] ELSE 0

Zeros(k) == [i \in 1..k |-> 0]

Max(x, y) == IF x >= y THEN x ELSE y

\* the limbs i..n of a + b + c
RECURSIVE AddFrom(_, _, _, _, _)
AddFrom(a, b, c, i, n) ==
    IF i > n THEN <<>>
    ELSE LET s == Limb(a, i) + Limb(b, i) + c
         IN  <<s % Base>> \o AddFrom(a, b, s \div Base, i + 1, n)

BigAdd(a, b) == Strip(AddFrom(a, b, 0, 1, Max(Len(a), Len(b)) + 1))

\* the limbs i..n of a - b - c, for a >= b
RECURSIVE SubFrom(_, _, _, _, _)
SubFrom(a, b, c, i, n) ==
    IF i > n THEN <<>>
    ELSE LET s == Limb(a, i) - Limb(b, i) - c
         IN  <<s % Base>> \o SubFrom(a, b, IF s < 0 THEN 1 ELSE 0, i + 1, n)

BigSub(a, b) == Strip(SubFrom(a, b, 0, 1, Len(a)))

RECURSIVE LessFrom(_, _, _)
LessFrom(a, b, i) ==
    IF i = 0 THEN FALSE
    ELSE IF a[i] # b[i] THEN a[i] < b[i]
    ELSE LessFrom(a, b, i - 1)

BigLess(a, b) ==
    IF Len(a) # Len(b) THEN Len(a) < Len(b) ELSE LessFrom(a, b, Len(a))

\* the limbs i..n of a * c + carry, c at most Base
RECURSIVE MulFrom(_, _, _, _, _)
MulFrom(a, c, carry, i, n) ==
    IF i > n THEN <<>>
    ELSE LET s == Limb(a, i) * c + carry
         IN  <<s % Base>> \o MulFrom(a, c, s \div Base, i + 1, n)

BigMulSmall(a, c) == Strip(MulFrom(a, c, 0, 1, Len(a) + 1))

\* <<quotient limbs 1..i, remainder>> of (r * Base^i + a[1..i]) by d, d at
\* most Base
RECURSIVE DivFrom(_, _, _, _)
DivFrom(a, d, i, r) ==
    IF i = 0 THEN <<(<<>>), r>>
    ELSE LET s    == r * Base + a[i]
             rest == DivFrom(a, d, i - 1, s % d)
         IN  <<rest[1] \o <<s \div d>>, rest[2]>>

\* <<a \div d, a % d>>
BigDivMod(a, d) ==
    LET r == DivFrom(a, d, Len(a), 0) IN <<Strip(r[1]), r[2]>>

RECURSIVE SmallBitLen(_)
SmallBitLen(n) == IF n = 0 THEN 0 ELSE 1 + SmallBitLen(n \div 2)

BitLen(a) ==
    IF a = <<>> THEN 0 ELSE 15 * (Len(a) - 1) + SmallBitLen(a[Len(a)])

\* a * 2^k
ShiftLeft(a, k) ==
    IF a = <<>> THEN <<>>
    ELSE Zeros(k \div 15) \o BigMulSmall(a, Pow2(k % 15))

\* <<a \div 2^k, whether a bit was dropped>>
ShiftRight(a, k) ==
    LET n    == k \div 15
        low  == SubSeq(a, 1, n)
        high == BigDivMod(SubSeq(a, n + 1, Len(a)), Pow2(k % 15))
    IN  <<high[1], high[2] # 0 \/ \E i \in 1..n : low[i] # 0>>

\* the uint64 subtraction a - b of Go: modulo 2^64
SubUint64(a, b) ==
    IF BigLess(a, b) THEN BigSub(ShiftLeft(<<1>>, 64), BigSub(b, a))
    ELSE BigSub(a, b)

RECURSIVE TrailingZeros(_)
TrailingZeros(n) == IF n % 2 = 1 THEN 0 ELSE 1 + TrailingZeros(n \div 2)

\* <<m, e>> with the trailing zero bits of m moved into e
RECURSIVE Canon(_, _)
Canon(m, e) ==
    IF m = <<>> THEN <<(<<>>), 0>>
    ELSE IF m[1] = 0 THEN Canon(Tail(m), e + 15)
    ELSE LET z == TrailingZeros(m[1])
         IN  <<BigDivMod(m, Pow2(z))[1], e + z>>

\* a * 2^e rounded to the nearest float64, ties to even (53 significant bits)
RoundF64(a, e) ==
    LET k == BitLen(a) - 53
    IN  IF k <= 0 THEN Canon(a, e)
        ELSE LET sh   == ShiftRight(a, k - 1)
                 half == BigDivMod(sh[1], 2)
                 kept == half[1]
                 up   == half[2] = 1 /\ (sh[2] \/ kept[1] % 2 = 1)
             IN  Canon(IF up THEN BigAdd(kept, <<1>>) ELSE kept, e + k)

\* float64(u) of a uint64
Uint64ToF64(u) == RoundF64(u, 0)

\* float64 of a small non-negative integer constant (exact)
F64(n) == Canon(NatToBig(n), 0)

\* x + y of two float64
F64Add(x, y) ==
    IF x[1] = <<>> THEN y
    ELSE IF y[1] = <<>> THEN x
    ELSE LET e == IF x[2] <= y[2] THEN x[2] ELSE y[2]
         IN  RoundF64(BigAdd(ShiftLeft(x[1], x[2] - e), ShiftLeft(y[1], y[2] - e)), e)

\* x < y of two float64
F64Less(x, y) ==
    IF y[1] = <<>> THEN FALSE
    ELSE IF x[1] = <<>> THEN TRUE
    ELSE LET e == IF x[2] <= y[2] THEN x[2] ELSE y[2]
         IN  BigLess(ShiftLeft(x[1], x[2] - e), ShiftLeft(y[1], y[2] - e))

\* x / y of two float64, correctly rounded, for a divisor whose odd mantissa
\* is one limb (1e6 is 15625 * 2^6): the dividend is shifted to give 55
\* quotient bits or more, and a non-zero remainder is one more low bit, which
\* only the rounding reads
F64Div(x, y) ==
    IF x[1] = <<>> THEN x
    ELSE LET d  == y[1][1]
             s  == Max(0, 55 + SmallBitLen(d) - BitLen(x[1]))
             qr == BigDivMod(ShiftLeft(x[1], s), d)
             q  == BigAdd(ShiftLeft(qr[1], 1), IF qr[2] # 0 THEN <<1>> ELSE <<>>)
         IN  RoundF64(q, x[2] - y[2] - s - 1)

(***************************************************************************)
(* Inputs: spans, resources and batches as PushSpans receives them.        *)
(***************************************************************************)
AttributeServiceName == "service.name"

Span(spanName, kind, code, start, end) ==
    [Name |-> spanName, Kind |-> kind, Status |-> [Code |-> code],
     StartTimeUnixNano |-> start, EndTimeUnixNano |-> end]

ResourceSpans(attributes, ils) ==
    [Resource |-> [Attributes |-> attributes], InstrumentationLibrarySpans |-> ils]

Attr(k, v) == [Key |-> k, Value |-> v]

\* a nil pointer: the Resource of a ResourceSpans and the Status of a Span
\* are pointers, and PushSpans receives them unchecked
Nil == [nil |-> TRUE]

\* the first attribute named service.name, or "" when the resource has none
RECURSIVE getServiceNameFrom(_, _)
getServiceNameFrom(attrs, i) ==
    IF i > Len(attrs) THEN ""
    ELSE IF attrs[i].Key = AttributeServiceName THEN attrs[i].Value
    ELSE getServiceNameFrom(attrs, i + 1)

\* rs.Attributes of a nil Resource: a nil pointer dereference, the call
\* panics instead of returning a name
getServiceNamePanics(rs) == rs = Nil

getServiceName(rs) == getServiceNameFrom(rs.Attributes, 1)

\* %s of a span kind and of a span status; fmt prints a nil Status as <nil>
KindString(kind) == kind

StatusString(status) == IF status = Nil THEN "<nil>" ELSE status.Code

buildKey(svcName, span) ==
    svcName \o "_" \o span.Name \o "_" \o KindString(span.Kind)
            \o "_" \o StatusString(span.Status)

\* float64(end - start) / float64(time.Millisecond.Nanoseconds())
latencyMSOf(span) ==
    F64Div(Uint64ToF64(SubUint64(span.EndTimeUnixNano, span.StartTimeUnixNano)),
           F64(1000000))

\* the call of getServiceName that panics, in the place it takes among the
\* calls of aggregateMetricsForSpan
NilResource == <<"", Nil>>

\* the calls of aggregateMetricsForSpan that aggregateMetrics makes for its
\* batches, in order: <<svcName, span>> per span of a resource with a service
\* name, up to the first resource that is nil, where getServiceName panics
\* and the resources after it are never reached
RECURSIVE SpansOf(_, _, _)
SpansOf(svcName, ils, i) ==
    IF i > Len(ils) THEN <<>>
    ELSE [j \in 1..Len(ils[i]) |-> <<svcName, ils[i][j]>>] \o SpansOf(svcName, ils, i + 1)

RECURSIVE aggregateMetricsFrom(_, _)
aggregateMetricsFrom(resourceSpans, i) ==
    IF i > Len(resourceSpans) THEN <<>>
    ELSE IF getServiceNamePanics(resourceSpans[i].Resource) THEN <<NilResource>>
    ELSE LET rs      == resourceSpans[i]
             svcName == getServiceName(rs.Resource)
         IN  (IF svcName = "" THEN <<>>
              ELSE SpansOf(svcName, rs.InstrumentationLibrarySpans, 1))
             \o aggregateMetricsFrom(resourceSpans, i + 1)

aggregateMetrics(resourceSpans) == aggregateMetricsFrom(resourceSpans, 1)

(***************************************************************************)
(* The processor.                                                          *)
(***************************************************************************)
name == "spanmetrics"

callsMetric == "calls_total"

latencyCountMetric == "latency_count"

latencySumMetric == "latency_sum"

latencyBucketMetric == "latency_bucket"

namespace == "tempo"

latencyBuckets == <<1, 10, 50, 100, 500>>

StaleThreshold == 4

Pushers == {"p1", "p2"}

Collector == "collector"

NoKey == ""

VARIABLES
    mtx,                  \* "free" or the holder of p.mtx
    calls, latencyCount, latencySum, latencyBucketCounts, cache, stalenessCounter,
                          \* the six maps, each a function on its keys; the
                          \* float64 counts of calls, latencyCount and the
                          \* buckets are whole numbers far below 2^53, kept
                          \* as integers
    metricActiveSeries,   \* the gauge
    pc, todo,             \* per PushSpans caller: position, spans still to aggregate
    cpc,                  \* position of the CollectMetrics caller
    ckeys, ccur, cidx,    \* the range loop of the collector: keys left, key, bucket
    timestampMs,          \* the timestamp of the cycle
    emitted,              \* samples the appender took in the current cycle
    appends,              \* Append calls of the current cycle
    sinkFailed,           \* an Append of the current cycle returned an error
    result,               \* what the last return of CollectMetrics was, "none" before
    pool,                 \* the batches callers may push
    budget,               \* how many span updates callers may start in all
    started, collects,    \* span updates and cycles admitted so far
    hist,                 \* per key: latencies aggregated since the key was created
    all,                  \* per key: latencies aggregated since the start
    since,                \* per key: sweeps since its last span update
    steady,               \* per key: no two sweeps in a row without a span update
    tuples,               \* per key: the (service, name, kind, status) of the
                          \* spans aggregated since the key was created
    sent                  \* per key: the calls and latency_count values written
                          \* by the last cycle, if it returned nil

store == <<calls, latencyCount, latencySum, latencyBucketCounts, cache, stalenessCounter>>

pushVars == <<pc, todo>>

collectVars == <<cpc, ckeys, ccur, cidx, timestampMs, emitted, appends, sinkFailed,
                 result>>

ghostVars == <<hist, all, since, steady, tuples, sent>>

vars == <<mtx, store, metricActiveSeries, pushVars, collectVars, pool, budget,
          started, collects, ghostVars>>

\* m[k] of a Go map: the zero value when k is not a key
Get(m, k, zero) == IF k \in DOMAIN m THEN m[k] ELSE zero

\* m[k] = v of a Go map
Put(m, k, v) == [x \in DOMAIN m \cup {k} |-> IF x = k THEN v ELSE m[x]]

\* delete(m, k) for every k of ks
Delete(m, ks) == [x \in DOMAIN m \ ks |-> m[x]]

(***************************************************************************)
(* PushSpans: aggregateMetrics calls aggregateMetricsForSpan once per span *)
(* that has a service name; each call locks, updates the maps, unlocks.    *)
(***************************************************************************)
MaxSpans == 3

MaxCollects == 4

\* where a caller with these spans left stands: before the Lock of the next
\* span (or before the getServiceName that panics), or back from PushSpans,
\* which returns nil after the last one
Position(spans) == IF spans = <<>> THEN "idle" ELSE "run"

\* PushSpans(ctx, req): the caller enters with a batch of the pool
PushSpans(p, batch) ==
    /\ pc[p] = "idle"
    /\ started + Len(aggregateMetrics(batch)) <= budget
    /\ pc' = [pc EXCEPT ![p] = Position(aggregateMetrics(batch))]
    /\ todo' = [todo EXCEPT ![p] = aggregateMetrics(batch)]
    /\ started' = started + Len(aggregateMetrics(batch))
    /\ UNCHANGED <<mtx, store, metricActiveSeries, collectVars, pool, budget, collects, ghostVars>>

\* the span a caller is aggregating, its key and its latency
svcNameOf(p) == Head(todo[p])[1]

spanOf(p) == Head(todo[p])[2]

keyOf(p) == buildKey(svcNameOf(p), spanOf(p))

\* getServiceName(rs.Resource) on a nil Resource: PushSpans panics before any
\* lock, returns nothing, and the rest of the batch is never aggregated; the
\* caller is gone, whether the panic is recovered above it or ends the process
PanicResource(p) ==
    /\ pc[p] = "run"
    /\ Head(todo[p]) = NilResource
    /\ pc' = [pc EXCEPT ![p] = "panicResource"]
    /\ todo' = [todo EXCEPT ![p] = <<>>]
    /\ UNCHANGED <<mtx, store, metricActiveSeries, collectVars, pool, budget, started,
                   collects, ghostVars>>

\* variant: a Lock that does not wait for the holder
LockNoWait(p) ==
    /\ pc[p] = "run"
    /\ Head(todo[p]) # NilResource
    /\ mtx' = p
    /\ pc' = [pc EXCEPT ![p] = "locked"]
    /\ UNCHANGED <<store, metricActiveSeries, todo, collectVars, pool, budget, started,
                   collects, ghostVars>>

\* aggregateMetricsForSpan up to p.mtx.Lock(): blocks while the mutex is held
Lock(p) ==
    /\ pc[p] = "run"
    /\ Head(todo[p]) # NilResource
    /\ mtx = "free"
    /\ mtx' = p
    /\ pc' = [pc EXCEPT ![p] = "locked"]
    /\ UNCHANGED <<store, metricActiveSeries, todo, collectVars, pool, budget, started,
                   collects, ghostVars>>

\* span.Status.Code of a nil Status: a nil pointer dereference while the
\* label list is being built, before p.cache is written
cacheLabelsPanics(span) == span.Status = Nil

cacheLabels(key, svcName, span) ==
    Put(cache, key, <<[Name |-> "service", Value |-> svcName],
                      [Name |-> "span_name", Value |-> span.Name],
                      [Name |-> "span_kind", Value |-> KindString(span.Kind)],
                      [Name |-> "span_status", Value |-> span.Status.Code]>>)

\* variant: the update leaves the staleness counter of a known key alone
keepStaleness(key) == Put(stalenessCounter, key, Get(stalenessCounter, key, 0))

\* variant: the update resets the counter of every key
resetEveryStaleness(key) == [x \in DOMAIN stalenessCounter \cup {key} |-> 0]

\* p.stalenessCounter[key] = 0
resetStaleness(key) == Put(stalenessCounter, key, 0)

\* variant: p.calls[key] = 1
setCalls(key) == Put(calls, key, 1)

\* p.calls[key]++
incrementCalls(key) == Put(calls, key, Get(calls, key, 0) + 1)

\* the dimensions of a span that its key and its labels are made of
Tuple(svcName, span) == <<svcName, span.Name, span.Kind, span.Status.Code>>

\* cacheLabels, the staleness reset and the calls increment, under the lock
UpdateCalls(p) ==
    /\ pc[p] = "locked"
    /\ ~cacheLabelsPanics(spanOf(p))
    /\ cache' = cacheLabels(keyOf(p), svcNameOf(p), spanOf(p))
    /\ stalenessCounter' = resetStaleness(keyOf(p))
    /\ calls' = incrementCalls(keyOf(p))
    /\ pc' = [pc EXCEPT ![p] = "latency"]
    /\ hist' = Put(hist, keyOf(p), Append(IF keyOf(p) \in DOMAIN calls THEN hist[keyOf(p)] ELSE <<>>,
                                           latencyMSOf(spanOf(p))))
    /\ all' = Put(all, keyOf(p), Append(Get(all, keyOf(p), <<>>), latencyMSOf(spanOf(p))))
    /\ since' = Put(since, keyOf(p), 0)
    /\ steady' = Put(steady, keyOf(p), Get(steady, keyOf(p), TRUE))
    /\ tuples' = Put(tuples, keyOf(p),
                     (IF keyOf(p) \in DOMAIN calls THEN tuples[keyOf(p)] ELSE {})
                         \cup {Tuple(svcNameOf(p), spanOf(p))})
    /\ UNCHANGED <<mtx, latencyCount, latencySum, latencyBucketCounts,
                   metricActiveSeries, todo, collectVars, pool, budget, started, collects,
                   sent>>

\* cacheLabels on a span with a nil Status: the panic leaves
\* aggregateMetricsForSpan under the lock, lines 113 to 116 are skipped and
\* with them the Unlock, which is not deferred: the maps are as they were and
\* the mutex stays held by a caller that is gone
PanicStatus(p) ==
    /\ pc[p] = "locked"
    /\ cacheLabelsPanics(spanOf(p))
    /\ pc' = [pc EXCEPT ![p] = "panicStatus"]
    /\ todo' = [todo EXCEPT ![p] = <<>>]
    /\ UNCHANGED <<mtx, store, metricActiveSeries, collectVars, pool, budget, started,
                   collects, ghostVars>>

\* sort.SearchFloat64s(a, x): the smallest index i with a[i] >= x, len(a) if
\* there is none (indices from 0)
SearchFloat64s(a, x) ==
    LET ge == {i \in 0..(Len(a) - 1) : ~F64Less(F64(a[i + 1]), x)}
    IN  IF ge = {} THEN Len(a) ELSE CHOOSE i \in ge : \A j \in ge : i <= j

\* make([]float64, len(p.latencyBuckets)+1)
newBuckets == [i \in 1..(Len(latencyBuckets) + 1) |-> 0]

\* the bucket slice of a key, made on its first use
bucketCountsOf(key) == Get(latencyBucketCounts, key, newBuckets)

\* variant: the buckets from the place of latencyMS on are incremented, the
\* last one included
observeFromIdx(c, latencyMS) ==
    LET idx == SearchFloat64s(latencyBuckets, latencyMS)
    IN  [i \in 1..Len(c) |-> IF i > idx THEN c[i] + 1 ELSE c[i]]

\* variant: the loop runs to idx included
observeThroughIdx(c, latencyMS) ==
    LET idx == SearchFloat64s(latencyBuckets, latencyMS)
    IN  [i \in 1..Len(c) |-> IF i <= idx + 1 THEN c[i] + 1 ELSE c[i]]

\* for i := 0; i < idx; i++ { c[i]++ } with idx the place of latencyMS
observe(c, latencyMS) ==
    LET idx == SearchFloat64s(latencyBuckets, latencyMS)
    IN  [i \in 1..Len(c) |-> IF i <= idx THEN c[i] + 1 ELSE c[i]]

incrementBuckets(key, latencyMS) ==
    Put(latencyBucketCounts, key, observe(bucketCountsOf(key), latencyMS))

\* p.latencyCount[key]++
incrementLatencyCount(key) == Put(latencyCount, key, Get(latencyCount, key, 0) + 1)

\* variant: p.latencySum[key] = latencyMS
assignLatencySum(key, latencyMS) == Put(latencySum, key, latencyMS)

\* p.latencySum[key] += latencyMS
addLatencySum(key, latencyMS) ==
    Put(latencySum, key, F64Add(Get(latencySum, key, F64(0)), latencyMS))

\* variant: the mutex is kept until the last span of the batch
UnlockAtEnd(p) == IF Tail(todo[p]) = <<>> THEN "free" ELSE p

\* the holder of the mutex after p.mtx.Unlock() at the end of a span update
Unlock(p) == "free"

\* aggregateLatencyMetrics, then p.mtx.Unlock() and the next span, if any
UpdateLatency(p) ==
    /\ pc[p] = "latency"
    /\ latencyCount' = incrementLatencyCount(keyOf(p))
    /\ latencySum' = addLatencySum(keyOf(p), latencyMSOf(spanOf(p)))
    /\ latencyBucketCounts' = incrementBuckets(keyOf(p), latencyMSOf(spanOf(p)))
    /\ mtx' = Unlock(p)
    /\ todo' = [todo EXCEPT ![p] = Tail(todo[p])]
    /\ pc' = [pc EXCEPT ![p] = Position(Tail(todo[p]))]
    /\ UNCHANGED <<calls, cache, stalenessCounter, metricActiveSeries, collectVars,
                   pool, budget, started, collects, ghostVars>>

(***************************************************************************)
(* CollectMetrics: one critical section for the sweep and every Append.    *)
(***************************************************************************)
\* the caller enters CollectMetrics; cycles never overlap
CollectMetrics ==
    /\ cpc = "idle"
    /\ collects < MaxCollects
    /\ cpc' = "wait"
    /\ collects' = collects + 1
    /\ UNCHANGED <<mtx, store, metricActiveSeries, pushVars, ckeys, ccur, cidx,
                   timestampMs, emitted, appends, sinkFailed, result, pool, budget,
                   started, ghostVars>>

\* variant: the cycle runs without the mutex
CollectNoLock ==
    /\ cpc = "wait"
    /\ cpc' = "sweep"
    /\ UNCHANGED <<mtx, store, metricActiveSeries, pushVars, ckeys, ccur, cidx, timestampMs,
                   emitted, appends, sinkFailed, result, pool, budget, started,
                   collects, ghostVars>>

\* p.mtx.Lock(): blocks while the mutex is held
CollectLock ==
    /\ cpc = "wait"
    /\ mtx = "free"
    /\ mtx' = Collector
    /\ cpc' = "sweep"
    /\ UNCHANGED <<store, metricActiveSeries, pushVars, ckeys, ccur, cidx, timestampMs,
                   emitted, appends, sinkFailed, result, pool, budget, started,
                   collects, ghostVars>>

\* variant: a key goes only once its counter is above the threshold
staleKeysLate ==
    {k \in DOMAIN stalenessCounter : stalenessCounter[k] + 1 > StaleThreshold}

\* the keys the sweep deletes: counter at the threshold after its increment
staleKeys ==
    {k \in DOMAIN stalenessCounter : stalenessCounter[k] + 1 >= StaleThreshold}

\* variant: the sweep forgets delete(p.cache, key)
cacheKept == cache

\* delete(p.cache, key) for the stale keys
cacheSwept == Delete(cache, staleKeys)

\* variant: the gauge is set before the loop
activeSeriesBefore == Cardinality(DOMAIN calls)

\* float64(len(p.calls)) after the loop
activeSeries == Cardinality(DOMAIN Delete(calls, staleKeys))

\* the staleness loop, the gauge and the timestamp
Sweep ==
    /\ cpc = "sweep"
    /\ stalenessCounter' =
           [k \in DOMAIN stalenessCounter \ staleKeys |-> stalenessCounter[k] + 1]
    /\ calls' = Delete(calls, staleKeys)
    /\ latencyCount' = Delete(latencyCount, staleKeys)
    /\ latencySum' = Delete(latencySum, staleKeys)
    /\ latencyBucketCounts' = Delete(latencyBucketCounts, staleKeys)
    /\ cache' = cacheSwept
    /\ metricActiveSeries' = activeSeries
    /\ timestampMs' = collects
    /\ cpc' = "calls"
    /\ ckeys' = DOMAIN calls'
    /\ hist' = [k \in DOMAIN hist \cap DOMAIN calls' |-> hist[k]]
    /\ since' = [k \in DOMAIN since |-> since[k] + 1]
    /\ steady' = [k \in DOMAIN steady |-> steady[k] /\ since[k] = 0]
    /\ tuples' = [k \in DOMAIN tuples \cap DOMAIN calls' |-> tuples[k]]
    /\ UNCHANGED <<mtx, pushVars, ccur, cidx, emitted, appends, sinkFailed, result,
                   pool, budget, started, collects, all, sent>>

getLabels(key, metricName) ==
    Get(cache, key, <<>>) \o <<[Name |-> "__name__", Value |-> namespace \o "_" \o metricName]>>

Digits == <<"0", "1", "2", "3", "4", "5", "6", "7", "8", "9">>

\* strconv.Itoa of a non-negative int
RECURSIVE Itoa(_)
Itoa(n) == IF n < 10 THEN Digits[n + 1] ELSE Itoa(n \div 10) \o Digits[(n % 10) + 1]

\* the labels of bucket i (from 0) of a key
bucketLabels(key, i) ==
    getLabels(key, latencyBucketMetric)
        \o <<[Name |-> "le",
              Value |-> IF i = Len(latencyBuckets) THEN "+Inf" ELSE Itoa(latencyBuckets[i + 1])]>>

\* what appender.Append(0, lbls, timestampMs, v) receives, v a float64; key is
\* not sent, it names the map key the sample was read from
Sample(key, lbls, v) == [lbls |-> lbls, t |-> timestampMs, v |-> v, key |-> key]

\* variant: the error of an Append is dropped and the loop goes on
ErrorIgnored == UNCHANGED <<cpc, result, ckeys, ccur, cidx, emitted>>

\* an Append that returned an error: the cycle returns it
Failed ==
    /\ cpc' = "ret"
    /\ result' = "err"
    /\ UNCHANGED <<ckeys, ccur, cidx, emitted>>

\* collectCalls: one iteration of the range over p.calls
AppendCalls(key, ok) ==
    /\ cpc = "calls"
    /\ key \in ckeys
    /\ appends' = appends + 1
    /\ sinkFailed' = ~ok
    /\ IF ok
       THEN /\ emitted' = Append(emitted, Sample(key, getLabels(key, callsMetric), F64(calls[key])))
            /\ ckeys' = ckeys \ {key}
            /\ UNCHANGED <<cpc, ccur, cidx, result>>
       ELSE Failed
    /\ UNCHANGED <<mtx, store, metricActiveSeries, pushVars, timestampMs, pool, budget, started,
                   collects, ghostVars>>

\* collectCalls returned nil: collectLatencyMetrics starts its range over
\* p.latencyCount
CallsDone ==
    /\ cpc = "calls"
    /\ ckeys = {}
    /\ cpc' = "latency"
    /\ ckeys' = DOMAIN latencyCount
    /\ ccur' = NoKey
    /\ UNCHANGED <<mtx, store, metricActiveSeries, pushVars, cidx, timestampMs, emitted,
                   appends, sinkFailed, result, pool, budget, started, collects,
                   ghostVars>>

\* collectLatencyMetrics: the latency_count sample of the next key
AppendLatencyCount(key, ok) ==
    /\ cpc = "latency"
    /\ key \in ckeys
    /\ appends' = appends + 1
    /\ sinkFailed' = ~ok
    /\ IF ok
       THEN /\ emitted' = Append(emitted, Sample(key, getLabels(key, latencyCountMetric),
                                                 F64(Get(latencyCount, key, 0))))
            /\ cpc' = "sum"
            /\ ccur' = key
            /\ UNCHANGED <<ckeys, cidx, result>>
       ELSE Failed
    /\ UNCHANGED <<mtx, store, metricActiveSeries, pushVars, timestampMs, pool, budget, started,
                   collects, ghostVars>>

\* variant: the range stops before the last bucket
AfterBucketShort(i) ==
    IF i < Len(Get(latencyBucketCounts, ccur, <<>>)) - 1
    THEN /\ cpc' = "bucket"
         /\ cidx' = i
         /\ UNCHANGED <<ckeys, ccur>>
    ELSE /\ cpc' = "latency"
         /\ ckeys' = ckeys \ {ccur}
         /\ ccur' = NoKey
         /\ UNCHANGED cidx

\* the position after the key's samples up to bucket i - 1 (from 0) are
\* written: bucket i, or the next key after the last bucket
AfterBucket(i) ==
    IF i < Len(Get(latencyBucketCounts, ccur, <<>>))
    THEN /\ cpc' = "bucket"
         /\ cidx' = i
         /\ UNCHANGED <<ckeys, ccur>>
    ELSE /\ cpc' = "latency"
         /\ ckeys' = ckeys \ {ccur}
         /\ ccur' = NoKey
         /\ UNCHANGED cidx

\* collectLatencyMetrics: the latency_sum sample of the key
AppendLatencySum(ok) ==
    /\ cpc = "sum"
    /\ appends' = appends + 1
    /\ sinkFailed' = ~ok
    /\ IF ok
       THEN /\ emitted' = Append(emitted, Sample(ccur, getLabels(ccur, latencySumMetric),
                                                 Get(latencySum, ccur, F64(0))))
            /\ AfterBucket(0)
            /\ UNCHANGED result
       ELSE Failed
    /\ UNCHANGED <<mtx, store, metricActiveSeries, pushVars, timestampMs, pool, budget, started,
                   collects, ghostVars>>

\* collectLatencyMetrics: one iteration of the range over the key's buckets
AppendBucket(ok) ==
    /\ cpc = "bucket"
    /\ appends' = appends + 1
    /\ sinkFailed' = ~ok
    /\ IF ok
       THEN /\ emitted' = Append(emitted, Sample(ccur, bucketLabels(ccur, cidx),
                                                 F64(latencyBucketCounts[ccur][cidx + 1])))
            /\ AfterBucket(cidx + 1)
            /\ UNCHANGED result
       ELSE Failed
    /\ UNCHANGED <<mtx, store, metricActiveSeries, pushVars, timestampMs, pool, budget, started,
                   collects, ghostVars>>

\* collectLatencyMetrics returned nil: CollectMetrics returns nil
LatencyDone ==
    /\ cpc = "latency"
    /\ ckeys = {}
    /\ cpc' = "ret"
    /\ result' = "nil"
    /\ UNCHANGED <<mtx, store, metricActiveSeries, pushVars, ckeys, ccur, cidx,
                   timestampMs, emitted, appends, sinkFailed, pool, budget, started,
                   collects, ghostVars>>

\* the value of the sample of a metric that the cycle wrote for a key
ValueOf(k, metricName) ==
    LET i == CHOOSE i \in 1..Len(emitted) :
                 /\ emitted[i].key = k
                 /\ emitted[i].lbls = getLabels(k, metricName)
    IN  emitted[i].v

\* what a returning cycle leaves with the sink: the calls and latency_count
\* values of its keys when it returns nil
Sent ==
    IF result = "nil"
    THEN [k \in {emitted[i].key : i \in 1..Len(emitted)} |->
              [calls |-> ValueOf(k, callsMetric),
               latencyCount |-> ValueOf(k, latencyCountMetric)]]
    ELSE [k \in {} |-> 0]

\* variant: the maps are cleared after a collect
CollectReturnClearing ==
    /\ cpc = "ret"
    /\ mtx' = "free"
    /\ cpc' = "idle"
    /\ ckeys' = {}
    /\ ccur' = NoKey
    /\ cidx' = 0
    /\ emitted' = <<>>
    /\ appends' = 0
    /\ sinkFailed' = FALSE
    /\ calls' = [k \in {} |-> 0]
    /\ latencyCount' = [k \in {} |-> 0]
    /\ latencySum' = [k \in {} |-> 0]
    /\ latencyBucketCounts' = [k \in {} |-> 0]
    /\ cache' = [k \in {} |-> 0]
    /\ stalenessCounter' = [k \in {} |-> 0]
    /\ sent' = Sent
    /\ UNCHANGED <<metricActiveSeries, pushVars, timestampMs, result, pool, budget,
                   started, collects, hist, all, since, steady, tuples>>

\* the deferred p.mtx.Unlock() of a returning CollectMetrics; the locals of the
\* call and the record of its Append calls end with it
CollectReturn ==
    /\ cpc = "ret"
    /\ mtx' = "free"
    /\ cpc' = "idle"
    /\ ckeys' = {}
    /\ ccur' = NoKey
    /\ cidx' = 0
    /\ emitted' = <<>>
    /\ appends' = 0
    /\ sinkFailed' = FALSE
    /\ sent' = Sent
    /\ UNCHANGED <<store, metricActiveSeries, pushVars, timestampMs, result, pool,
                   budget, started, collects, hist, all, since, steady, tuples>>

(***************************************************************************)
(* The specification: two PushSpans callers and the collector.             *)
(***************************************************************************)
Server == "SPAN_KIND_SERVER"

Ok == "STATUS_CODE_OK"

T0 == NatToBig(1000000000)

After(ns) == BigAdd(T0, NatToBig(ns))

\* three spans of one key with latencies 0.2, 0.3 and 0.1 ms, one of another
\* key with 5 ms
SpanA1 == Span("op", Server, Ok, T0, After(200000))

SpanA2 == Span("op", Server, Ok, T0, After(300000))

SpanA3 == Span("op", Server, Ok, T0, After(100000))

SpanB == Span("op", Server, Ok, T0, After(5000000))

Named(svc) == <<Attr("host.name", "h"), Attr(AttributeServiceName, svc)>>

BatchA == <<ResourceSpans(Named("a"), <<<<SpanA1, SpanA2>>>>)>>

BatchB == <<ResourceSpans(<<Attr("host.name", "h")>>, <<<<SpanA1>>>>),
            ResourceSpans(Named("b"), <<<<>>, <<SpanB>>>>)>>

BatchC == <<ResourceSpans(Named("a"), <<<<SpanA3>>>>)>>

\* a span whose timestamps are not set (start and end 0)
Span0 == Span("op", Server, Ok, NatToBig(0), NatToBig(0))

\* malformed input: a resource group whose Resource is nil between two named
\* ones, and a span whose Status is nil
BatchNoResource == <<ResourceSpans(Named("a"), <<<<Span0>>>>),
                     [Resource |-> Nil, InstrumentationLibrarySpans |-> <<<<Span0>>>>],
                     ResourceSpans(Named("b"), <<<<Span0>>>>)>>

SpanNoStatus == [Name |-> "op", Kind |-> Server, Status |-> Nil,
                 StartTimeUnixNano |-> NatToBig(0), EndTimeUnixNano |-> NatToBig(0)]

BatchNoStatus == <<ResourceSpans(Named("a"), <<<<SpanNoStatus>>>>)>>

Malformed == {BatchNoResource, BatchNoStatus}

Empty == [k \in {} |-> 0]

InitWith(batches, n) ==
    /\ mtx = "free"
    /\ calls = Empty
    /\ latencyCount = Empty
    /\ latencySum = Empty
    /\ latencyBucketCounts = Empty
    /\ cache = Empty
    /\ stalenessCounter = Empty
    /\ metricActiveSeries = 0
    /\ pc = [p \in Pushers |-> "idle"]
    /\ todo = [p \in Pushers |-> <<>>]
    /\ cpc = "idle"
    /\ ckeys = {}
    /\ ccur = NoKey
    /\ cidx = 0
    /\ timestampMs = 0
    /\ emitted = <<>>
    /\ appends = 0
    /\ sinkFailed = FALSE
    /\ result = "none"
    /\ pool = batches \cup Malformed
    /\ budget = n
    /\ started = 0
    /\ collects = 0
    /\ hist = Empty
    /\ all = Empty
    /\ since = Empty
    /\ steady = Empty
    /\ tuples = Empty
    /\ sent = Empty

Init == InitWith({BatchA, BatchB}, MaxSpans)

Next ==
    \/ \E p \in Pushers : \E batch \in pool : PushSpans(p, batch)
    \/ \E p \in Pushers : PanicResource(p)
    \/ \E p \in Pushers : Lock(p)
    \/ \E p \in Pushers : PanicStatus(p)
    \/ \E p \in Pushers : UpdateCalls(p)
    \/ \E p \in Pushers : UpdateLatency(p)
    \/ CollectMetrics
    \/ CollectLock
    \/ Sweep
    \/ \E key \in ckeys : \E ok \in BOOLEAN : AppendCalls(key, ok)
    \/ CallsDone
    \/ \E key \in ckeys : \E ok \in BOOLEAN : AppendLatencyCount(key, ok)
    \/ \E ok \in BOOLEAN : AppendLatencySum(ok)
    \/ \E ok \in BOOLEAN : AppendBucket(ok)
    \/ LatencyDone
    \/ CollectReturn

Spec == Init /\ [][Next]_vars

\* three spans of one key in any order of arrival
InitOrder == InitWith({BatchA, BatchC}, MaxSpans)

SpecOrder == InitOrder /\ [][Next]_vars

\* steady traffic: two callers pushing single spans of one key
MaxTraffic == 4

InitTraffic == InitWith({BatchC}, MaxTraffic)

SpecTraffic == InitTraffic /\ [][Next]_vars

(***************************************************************************)
(* Properties.                                                             *)
(***************************************************************************)
InAll(k) ==
    /\ k \in DOMAIN calls
    /\ k \in DOMAIN latencyCount
    /\ k \in DOMAIN latencySum
    /\ k \in DOMAIN latencyBucketCounts
    /\ k \in DOMAIN cache
    /\ k \in DOMAIN stalenessCounter

InNone(k) ==
    /\ k \notin DOMAIN calls
    /\ k \notin DOMAIN latencyCount
    /\ k \notin DOMAIN latencySum
    /\ k \notin DOMAIN latencyBucketCounts
    /\ k \notin DOMAIN cache
    /\ k \notin DOMAIN stalenessCounter

AnyKeys ==
    DOMAIN calls \cup DOMAIN latencyCount \cup DOMAIN latencySum
        \cup DOMAIN latencyBucketCounts \cup DOMAIN cache \cup DOMAIN stalenessCounter

\* a caller is between UpdateCalls and UpdateLatency of a span of key k
Updating(k) == \E p \in Pushers : pc[p] = "latency" /\ keyOf(p) = k

\* the float64 sum of a sequence, added from the left as += does
RECURSIVE SumF64(_)
SumF64(seq) ==
    IF seq = <<>> THEN F64(0)
    ELSE F64Add(SumF64(SubSeq(seq, 1, Len(seq) - 1)), seq[Len(seq)])

\* the buckets after the latencies of a sequence, observed from the left
RECURSIVE BucketsOf(_)
BucketsOf(seq) ==
    IF seq = <<>> THEN newBuckets
    ELSE observe(BucketsOf(SubSeq(seq, 1, Len(seq) - 1)), seq[Len(seq)])

Perms(n) == {f \in [1..n -> 1..n] : \A i, j \in 1..n : f[i] = f[j] => i = j}

Reorder(seq, f) == [i \in 1..Len(seq) |-> seq[f[i]]]

\* where a cycle is between its sweep and its return
EmitPcs == {"calls", "latency", "sum", "bucket", "ret"}

NameOf(lbls) == (CHOOSE i \in 1..Len(lbls) : lbls[i].Name = "__name__")

MetricOf(sample) == sample.lbls[NameOf(sample.lbls)].Value

SamplesOf(k) == {i \in 1..Len(emitted) : emitted[i].key = k}

\* C1: whenever the mutex is free (no span update and no cycle is inside its
\* critical section), the six maps have the same keys.
C1_AllOrNothing ==
    mtx = "free" => \A k \in AnyKeys : InAll(k)

\* a key is live with the mutex free after another key was evicted
C1_Witness ==
    /\ mtx = "free"
    /\ \E k \in DOMAIN calls : InAll(k)
    /\ \E k \in DOMAIN since : InNone(k)

\* C2: a key whose last span update is 1, 2 or 3 sweeps back is in all six
\* maps, and one whose last span update is 4 sweeps or more back is in none.
C2_EvictedAfterFour ==
    \A k \in DOMAIN since :
        /\ since[k] \in 1..3 => InAll(k)
        /\ since[k] >= 4 => InNone(k)

\* right after the 4th sweep that follows the only push of a key
C2_Witness ==
    \E k \in DOMAIN since :
        /\ Len(all[k]) = 1
        /\ since[k] = 4
        /\ cpc = "calls"
        /\ InNone(k)

\* C3: a key that had a span update before every sweep since its first one is
\* in calls, calls counts every span ever aggregated for it, and so do
\* latencyCount, latencySum and the buckets once the update in progress ends.
C3_SurvivesTraffic ==
    \A k \in DOMAIN steady :
        steady[k] =>
            /\ k \in DOMAIN calls
            /\ k \in DOMAIN stalenessCounter
            /\ k \in DOMAIN cache
            /\ calls[k] = Len(all[k])
            /\ ~Updating(k) =>
                   /\ InAll(k)
                   /\ latencyCount[k] = Len(all[k])
                   /\ latencySum[k] = SumF64(all[k])
                   /\ latencyBucketCounts[k] = BucketsOf(all[k])

\* a key with a span before each of four sweeps, after the fourth
C3_Witness ==
    \E k \in DOMAIN steady :
        /\ steady[k]
        /\ since[k] = 1
        /\ collects = 4
        /\ cpc = "ret"
        /\ calls[k] = 4

\* C4: calls[key] is the number of spans aggregated for the key since it was
\* created.
C4_CallsCount ==
    \A k \in DOMAIN calls : calls[k] = Len(hist[k])

\* three spans of one key
C4_Witness ==
    \E k \in DOMAIN calls : Len(hist[k]) = 3 /\ calls[k] = 3 /\ mtx = "free"

\* C5: outside a span update of the key, latencyCount[key] is the number of
\* spans aggregated for the key since it was created and latencySum[key] is
\* the float64 sum of their latencies in the order of the updates.
C5_LatencyCountAndSum ==
    \A k \in DOMAIN hist :
        ~Updating(k) /\ k \in DOMAIN calls =>
            /\ k \in DOMAIN latencyCount
            /\ k \in DOMAIN latencySum
            /\ latencyCount[k] = Len(hist[k])
            /\ latencySum[k] = SumF64(hist[k])

\* three spans of one key, the sum not a single latency
C5_Witness ==
    \E k \in DOMAIN hist :
        /\ ~Updating(k)
        /\ Len(hist[k]) = 3
        /\ k \in DOMAIN latencySum
        /\ latencySum[k] = SumF64(hist[k])
        /\ latencySum[k] # hist[k][3]

\* C6: while a cycle is between its Lock and its return no caller is inside a
\* span update, every key is in all six maps, calls and latencyCount agree on
\* every key, and so do the calls and latency_count samples it wrote.
C6_AtomicUpdates ==
    cpc \in EmitPcs \cup {"sweep"} =>
        /\ \A p \in Pushers : pc[p] \notin {"locked", "latency"}
        /\ \A k \in AnyKeys : InAll(k) /\ calls[k] = latencyCount[k]
        /\ \A i, j \in 1..Len(emitted) :
               /\ emitted[i].key = emitted[j].key
               /\ MetricOf(emitted[i]) = namespace \o "_" \o callsMetric
               /\ MetricOf(emitted[j]) = namespace \o "_" \o latencyCountMetric
               => emitted[i].v = emitted[j].v

\* a cycle has written both samples of a key while a caller waits for the lock
C6_Witness ==
    /\ cpc = "bucket"
    /\ \E p \in Pushers : pc[p] = "run"
    /\ \E i, j \in 1..Len(emitted) :
           /\ emitted[i].key = emitted[j].key
           /\ MetricOf(emitted[i]) = namespace \o "_" \o callsMetric
           /\ MetricOf(emitted[j]) = namespace \o "_" \o latencyCountMetric
           /\ calls[emitted[i].key] >= 2

\* every caller is back and no cycle has run
Quiet == collects = 0 /\ \A p \in Pushers : pc[p] = "idle"

\* C7 as stated: with every caller back and no cycle run, the values of each
\* key are those of pushing its spans one after another in any order.
C7_AnyOrder ==
    Quiet =>
        \A k \in DOMAIN hist : \A f \in Perms(Len(hist[k])) :
            /\ calls[k] = Len(hist[k])
            /\ latencyCount[k] = Len(hist[k])
            /\ latencySum[k] = SumF64(Reorder(hist[k], f))
            /\ latencyBucketCounts[k] = BucketsOf(Reorder(hist[k], f))

\* C7 amended: calls, latencyCount and the buckets are those of pushing the
\* spans in any order; latencySum is the float64 sum in the order in which the
\* updates took the lock.
C7_AnyOrderButSum ==
    Quiet =>
        \A k \in DOMAIN hist : \A f \in Perms(Len(hist[k])) :
            /\ calls[k] = Len(hist[k])
            /\ latencyCount[k] = Len(hist[k])
            /\ latencySum[k] = SumF64(hist[k])
            /\ latencyBucketCounts[k] = BucketsOf(Reorder(hist[k], f))

\* the span of one caller went between the two spans of the other's batch
C7_Witness ==
    /\ Quiet
    /\ \E k \in DOMAIN hist :
           hist[k] = <<latencyMSOf(SpanA1), latencyMSOf(SpanA3), latencyMSOf(SpanA2)>>

\* C8: once an Append of the cycle has failed, the cycle is at its return
\* with that error and the samples written before stay written: one fewer
\* than the Append calls, and no Append went unrecorded before.
C8_FirstFailureAborts ==
    /\ sinkFailed => cpc = "ret" /\ result = "err" /\ Len(emitted) = appends - 1
    /\ ~sinkFailed => Len(emitted) = appends

\* the third Append failed
C8_Witness ==
    sinkFailed /\ appends = 3 /\ Len(emitted) = 2 /\ cpc = "ret"

\* the samples of key k with the values the maps hold
FullSamples(k) ==
    {Sample(k, getLabels(k, callsMetric), F64(calls[k])),
     Sample(k, getLabels(k, latencyCountMetric), F64(latencyCount[k])),
     Sample(k, getLabels(k, latencySumMetric), latencySum[k])}
        \cup {Sample(k, bucketLabels(k, i), F64(latencyBucketCounts[k][i + 1])) :
                  i \in 0..Len(latencyBuckets)}

\* the cycle after one that returned an error has written its last sample
Retried == result = "err" /\ cpc = "latency" /\ ckeys = {}

\* C9: no step of a cycle after its sweep, the failing Append and the return
\* included, changes calls, latencyCount, latencySum or the buckets; and the
\* cycle after a failed one, when the sink works, writes the samples of every
\* live key with the values the maps hold.
C9_FailedCycleLosesNothing ==
    /\ [](Retried => {emitted[i] : i \in 1..Len(emitted)}
                         = UNION {FullSamples(k) : k \in DOMAIN calls})
    /\ [][(cpc \in EmitPcs) =>
              (UNCHANGED <<calls, latencyCount, latencySum, latencyBucketCounts>>)]_vars

\* the cycle after a failed one is done writing the samples of a live key
C9_Witness ==
    Retried /\ ~sinkFailed /\ \E k \in DOMAIN calls : calls[k] >= 2

\* C10 as stated: a cycle that returns nil has written 2 + (numBuckets + 1)
\* samples per live key.
C10_TwoPlusBuckets ==
    cpc = "ret" /\ result = "nil" =>
        \A k \in DOMAIN calls :
            Cardinality(SamplesOf(k)) = 2 + (Len(latencyBuckets) + 1)

\* C10 amended: a cycle that returns nil has written 3 + (numBuckets + 1)
\* samples per live key (calls, latency_count, latency_sum, one per bucket
\* and one for +Inf), and nothing else.
C10_ThreePlusBuckets ==
    cpc = "ret" /\ result = "nil" =>
        /\ \A k \in DOMAIN calls :
               Cardinality(SamplesOf(k)) = 3 + (Len(latencyBuckets) + 1)
        /\ Len(emitted) = Cardinality(DOMAIN calls) * (3 + (Len(latencyBuckets) + 1))

\* a cycle over two live keys returns nil
C10_Witness ==
    cpc = "ret" /\ result = "nil" /\ Cardinality(DOMAIN calls) = 2

\* C11: from the sweep of a cycle to its return, whether it returns nil or
\* the error of an Append, the gauge is the number of keys the sweep left.
C11_GaugeAfterSweep ==
    cpc \in EmitPcs =>
        /\ metricActiveSeries = Cardinality(DOMAIN calls)
        /\ metricActiveSeries = Cardinality(DOMAIN stalenessCounter)

\* a cycle whose sweep evicted one key of two returns an error
C11_Witness ==
    /\ cpc = "ret"
    /\ result = "err"
    /\ metricActiveSeries = 1
    /\ \E k \in DOMAIN since : InNone(k)

(***************************************************************************)
(* Names that hold the separator of buildKey.                              *)
(***************************************************************************)
\* a span named "b_c" of service "a" and a span named "c" of service "a_b"
SpanD == Span("b_c", Server, Ok, T0, After(5000000))

SpanE == Span("c", Server, Ok, T0, After(20000000))

BatchD == <<ResourceSpans(Named("a"), <<<<SpanD>>>>)>>

BatchE == <<ResourceSpans(Named("a_b"), <<<<SpanE>>>>)>>

InitKeys == InitWith({BatchD, BatchE}, MaxSpans)

SpecKeys == InitKeys /\ [][Next]_vars

\* C12 as stated: spans whose (service, name, kind, status) differ have
\* different keys, so the spans aggregated under one key all have the same
\* (service, name, kind, status).
C12_CollisionFree ==
    \A k \in DOMAIN tuples : Cardinality(tuples[k]) <= 1

\* a resource carries a service.name attribute
HasServiceName(rs) ==
    /\ rs.Resource # Nil
    /\ \E i \in 1..Len(rs.Resource.Attributes) :
           rs.Resource.Attributes[i].Key = AttributeServiceName

RECURSIVE Concat(_)
Concat(seqs) == IF seqs = <<>> THEN <<>> ELSE Head(seqs) \o Concat(Tail(seqs))

\* the spans of the resources of a batch that carry a service name, in order
NamedSpans(batch) ==
    Concat([i \in 1..Len(batch) |->
               IF HasServiceName(batch[i])
               THEN Concat(batch[i].InstrumentationLibrarySpans)
               ELSE <<>>])

\* the service label of a cached label set
ServiceOf(lbls) == lbls[CHOOSE i \in 1..Len(lbls) : lbls[i].Name = "service"].Value

\* C13: a PushSpans call changes no map by itself and takes up exactly the
\* spans of the resources of its batch that carry a service name, those
\* after a resource without one included; no call ends in a panic of
\* getServiceName, and no series has an empty service name.
C13_SilentDrop ==
    /\ [](/\ \A p \in Pushers : pc[p] # "panicResource"
          /\ \A k \in DOMAIN cache : ServiceOf(cache[k]) # "")
    /\ [][\A p \in Pushers :
              pc[p] = "idle" /\ todo'[p] # <<>> =>
                  /\ UNCHANGED store
                  /\ \E batch \in pool :
                         /\ Len(todo'[p]) = Len(NamedSpans(batch))
                         /\ \A i \in 1..Len(todo'[p]) :
                                todo'[p][i][2] = NamedSpans(batch)[i]]_vars

\* the step is the map update of a span of caller p
IsUpdateBy(p) == pc[p] = "locked" /\ pc'[p] = "latency"

\* the step is the sweep of a cycle
IsSweep == cpc = "sweep" /\ cpc' = "calls"

\* C14: a span update sets the counter of its key to 0 and leaves the counter
\* of every other key as it was; a sweep leaves every key it does not evict
\* with its counter one higher; no other step changes a counter.
C14_StalenessSteps ==
    [][/\ \A p \in Pushers :
              IsUpdateBy(p) =>
                  /\ DOMAIN stalenessCounter' = DOMAIN stalenessCounter \cup {keyOf(p)}
                  /\ stalenessCounter'[keyOf(p)] = 0
                  /\ \A k \in DOMAIN stalenessCounter \ {keyOf(p)} :
                         stalenessCounter'[k] = stalenessCounter[k]
       /\ IsSweep =>
              /\ DOMAIN stalenessCounter' \subseteq DOMAIN stalenessCounter
              /\ \A k \in DOMAIN stalenessCounter' :
                     stalenessCounter'[k] = stalenessCounter[k] + 1
       /\ ~IsSweep /\ (\A p \in Pushers : ~IsUpdateBy(p)) =>
              UNCHANGED stalenessCounter]_vars

\* a key updated again after it aged, next to a key two sweeps old
C14_Witness ==
    \E k1, k2 \in DOMAIN stalenessCounter :
        /\ stalenessCounter[k1] = 0
        /\ Len(all[k1]) = 2
        /\ stalenessCounter[k2] = 2
        /\ since[k2] = 2

(***************************************************************************)
(* Spans of 5, 20 and 200 ms of one key.                                   *)
(***************************************************************************)
Span5 == Span("op1", Server, Ok, T0, After(5000000))

Span20 == Span("op1", Server, Ok, T0, After(20000000))

Span200 == Span("op1", Server, Ok, T0, After(200000000))

Batch5 == <<ResourceSpans(Named("svcA"), <<<<Span5>>>>)>>

Batch20 == <<ResourceSpans(Named("svcA"), <<<<Span20>>>>)>>

Batch200 == <<ResourceSpans(Named("svcA"), <<<<Span200>>>>)>>

InitScenario == InitWith({Batch5, Batch20, Batch200}, MaxSpans)

SpecScenario == InitScenario /\ [][Next]_vars

\* C15 as stated: the count of a bucket is at most the count of the next
\* bucket, for every key.
C15_NonDecreasing ==
    \A k \in DOMAIN latencyBucketCounts :
        \A i \in 1..(Len(latencyBucketCounts[k]) - 1) :
            latencyBucketCounts[k][i] <= latencyBucketCounts[k][i + 1]

\* the step is the latency update of a span of caller p
IsLatencyUpdateBy(p) == pc[p] = "latency" /\ pc'[p] # "latency"

\* the latencies of a sequence, as a bag
Count(seq, x) == Cardinality({i \in 1..Len(seq) : seq[i] = x})

\* C16: a span update of latency L adds 1 to exactly the buckets whose
\* boundary is below L and leaves every other bucket, the last one and those
\* of other keys included, as it was; after spans of 5, 20 and 200 ms in any
\* order calls is 3, latencyCount 3, latencySum 225 and the buckets are
\* 3, 2, 1, 1, 0, 0.
C16_BucketsBelow ==
    /\ [](\A k \in DOMAIN hist :
              /\ ~Updating(k)
              /\ k \in DOMAIN calls
              /\ Len(hist[k]) = 3
              /\ \A ms \in {5, 20, 200} : Count(hist[k], F64(ms)) = 1
              => /\ calls[k] = 3
                 /\ latencyCount[k] = 3
                 /\ latencySum[k] = F64(225)
                 /\ latencyBucketCounts[k] = <<3, 2, 1, 1, 0, 0>>)
    /\ [][\A p \in Pushers :
              IsLatencyUpdateBy(p) =>
                  LET k   == keyOf(p)
                      L   == latencyMSOf(spanOf(p))
                      old == IF k \in DOMAIN latencyBucketCounts
                             THEN latencyBucketCounts[k]
                             ELSE [i \in 1..(Len(latencyBuckets) + 1) |-> 0]
                  IN  /\ DOMAIN latencyBucketCounts' = DOMAIN latencyBucketCounts \cup {k}
                      /\ Len(latencyBucketCounts'[k]) = Len(latencyBuckets) + 1
                      /\ \A i \in 1..(Len(latencyBuckets) + 1) :
                             latencyBucketCounts'[k][i] =
                                 IF i <= Len(latencyBuckets) /\ F64Less(F64(latencyBuckets[i]), L)
                                 THEN old[i] + 1
                                 ELSE old[i]
                      /\ \A x \in DOMAIN latencyBucketCounts \ {k} :
                             latencyBucketCounts'[x] = latencyBucketCounts[x]]_vars

\* the three spans went in as 200, 5, 20 ms
C16_Witness ==
    /\ \A p \in Pushers : pc[p] = "idle"
    /\ \E k \in DOMAIN hist :
           /\ hist[k] = <<F64(200), F64(5), F64(20)>>
           /\ k \in DOMAIN latencyBucketCounts
           /\ latencyBucketCounts[k] = <<3, 2, 1, 1, 0, 0>>
           /\ latencySum[k] = F64(225)

\* C17: from the sweep of a cycle to its return no caller is inside a span
\* update and no step changes a map, the sweep itself only removes the keys it
\* evicts; so every sample written is the value its key has in the maps, which
\* is the value it had when the sweep started, and no sample is written for a
\* key that is not in the maps.
C17_OneCriticalSection ==
    /\ [](cpc \in EmitPcs \cup {"sweep"} =>
              /\ mtx = Collector
              /\ \A p \in Pushers : pc[p] \notin {"locked", "latency"}
              /\ \A i \in 1..Len(emitted) :
                     /\ emitted[i].key \in DOMAIN calls
                     /\ emitted[i] \in FullSamples(emitted[i].key))
    /\ [][/\ cpc \in EmitPcs => UNCHANGED store
          /\ IsSweep =>
                 /\ DOMAIN calls' \subseteq DOMAIN calls
                 /\ \A k \in DOMAIN calls' :
                        /\ calls'[k] = calls[k]
                        /\ latencyCount'[k] = latencyCount[k]
                        /\ latencySum'[k] = latencySum[k]
                        /\ latencyBucketCounts'[k] = latencyBucketCounts[k]
                        /\ cache'[k] = cache[k]]_vars

\* a cycle whose sweep evicted a key has written the samples of the other
\* key, while a caller waits for the mutex
C17_Witness ==
    /\ cpc = "ret"
    /\ result = "nil"
    /\ \E p \in Pushers : pc[p] = "run"
    /\ Len(emitted) = 3 + (Len(latencyBuckets) + 1)
    /\ \E k \in DOMAIN since : InNone(k)

\* C18: a caller holds the mutex only inside a span update: between two span
\* updates of its batch the mutex is not its own, so a cycle or another
\* caller's update can run there.
C18_LockPerSpan ==
    \A p \in Pushers :
        /\ pc[p] \in {"locked", "latency"} => mtx = p
        /\ pc[p] \in {"idle", "run"} => mtx # p

\* a cycle has written calls = 1 for the key of a two-span batch whose first
\* span is aggregated and whose second span still waits
C18_Witness ==
    \E p \in Pushers :
        /\ pc[p] = "run"
        /\ todo[p] = <<<<"a", SpanA2>>>>
        /\ hist[buildKey("a", SpanA1)] = <<latencyMSOf(SpanA1)>>
        /\ cpc \in EmitPcs
        /\ \E i \in 1..Len(emitted) :
               /\ emitted[i].key = buildKey("a", SpanA1)
               /\ emitted[i].lbls = getLabels(buildKey("a", SpanA1), callsMetric)
               /\ emitted[i].v = F64(1)

\* C19: every calls and latency_count sample a cycle writes is the number of
\* spans aggregated for its key since the key was created, and is not below
\* the value the cycle before wrote for the key when that cycle returned nil.
C19_CumulativeValues ==
    \A i \in 1..Len(emitted) :
        LET k == emitted[i].key
        IN  /\ emitted[i].lbls = getLabels(k, callsMetric) =>
                   /\ emitted[i].v = F64(Len(hist[k]))
                   /\ k \in DOMAIN sent => ~F64Less(emitted[i].v, sent[k].calls)
            /\ emitted[i].lbls = getLabels(k, latencyCountMetric) =>
                   /\ emitted[i].v = F64(Len(hist[k]))
                   /\ k \in DOMAIN sent => ~F64Less(emitted[i].v, sent[k].latencyCount)

\* the second of two cycles that return nil has written 2 for a key for which
\* the first wrote 1
C19_Witness ==
    /\ cpc = "ret"
    /\ result = "nil"
    /\ \E k \in DOMAIN sent :
           /\ sent[k].calls = F64(1)
           /\ sent[k].latencyCount = F64(1)
           /\ k \in DOMAIN calls
           /\ ValueOf(k, callsMetric) = F64(2)
           /\ ValueOf(k, latencyCountMetric) = F64(2)

\* C20 as stated: the label set cached for a key is written when the key is
\* created and no later step changes it while the key is in the cache.
C20_LabelsSetOnce ==
    [][\A k \in DOMAIN cache \cap DOMAIN cache' : cache'[k] = cache[k]]_vars

(***************************************************************************)
(* A span that ends before it starts.                                      *)
(***************************************************************************)
\* end 1 ms before start, next to a span of 5 ms of the same key
SpanN == Span("op1", Server, Ok, After(1000000), T0)

BatchN == <<ResourceSpans(Named("svcA"), <<<<SpanN>>>>)>>

InitNegative == InitWith({BatchN, Batch5}, MaxSpans)

SpecNegative == InitNegative /\ [][Next]_vars

\* the span ends before it starts
EndsBeforeStart(span) == BigLess(span.EndTimeUnixNano, span.StartTimeUnixNano)

\* C21 as stated: the update of a span that ends before it starts adds a
\* negative latency: it increments no bucket of its key and latencySum does
\* not grow.
C21_NegativeAsIs ==
    [][\A p \in Pushers :
           IsLatencyUpdateBy(p) /\ EndsBeforeStart(spanOf(p)) =>
               /\ latencyBucketCounts'[keyOf(p)] =
                      (IF keyOf(p) \in DOMAIN latencyBucketCounts
                       THEN latencyBucketCounts[keyOf(p)]
                       ELSE [i \in 1..(Len(latencyBuckets) + 1) |-> 0])
               /\ ~F64Less(IF keyOf(p) \in DOMAIN latencySum
                           THEN latencySum[keyOf(p)]
                           ELSE F64(0),
                           latencySum'[keyOf(p)])]_vars

\* C23: the last bucket of every key, the one written with le="+Inf", is 0,
\* and no bucket of a key is above the key's latencyCount.
C23_OverflowNeverIncremented ==
    \A k \in DOMAIN latencyBucketCounts :
        /\ Len(latencyBucketCounts[k]) = Len(latencyBuckets) + 1
        /\ latencyBucketCounts[k][Len(latencyBuckets) + 1] = 0
        /\ k \in DOMAIN latencyCount
        /\ \A i \in 1..Len(latencyBucketCounts[k]) :
               latencyBucketCounts[k][i] <= latencyCount[k]

\* a key after a span of 5 ms and one above every boundary, its +Inf sample
\* written
C23_Witness ==
    /\ cpc = "ret"
    /\ result = "nil"
    /\ \E k \in DOMAIN latencyBucketCounts :
           /\ latencyBucketCounts[k] = <<2, 1, 1, 1, 1, 0>>
           /\ latencyCount[k] = 2
           /\ \E i \in 1..Len(emitted) :
                  /\ emitted[i].lbls = bucketLabels(k, Len(latencyBuckets))
                  /\ emitted[i].v = F64(0)

(***************************************************************************)
(* Scheduling: a goroutine that can run does run, and a goroutine waiting   *)
(* in Lock gets the mutex if it is freed again and again (sync.Mutex hands  *)
(* it to a starving waiter); calls of PushSpans and CollectMetrics are up   *)
(* to the callers, and Append returns.                                      *)
(***************************************************************************)
Fairness ==
    /\ \A p \in Pushers :
           /\ WF_vars(PanicResource(p))
           /\ SF_vars(Lock(p))
           /\ WF_vars(PanicStatus(p))
           /\ WF_vars(UpdateCalls(p))
           /\ WF_vars(UpdateLatency(p))
    /\ SF_vars(CollectLock)
    /\ WF_vars(Sweep)
    /\ WF_vars(\E key \in ckeys : \E ok \in BOOLEAN : AppendCalls(key, ok))
    /\ WF_vars(CallsDone)
    /\ WF_vars(\E key \in ckeys : \E ok \in BOOLEAN : AppendLatencyCount(key, ok))
    /\ WF_vars(\E ok \in BOOLEAN : AppendLatencySum(ok))
    /\ WF_vars(\E ok \in BOOLEAN : AppendBucket(ok))
    /\ WF_vars(LatencyDone)
    /\ WF_vars(CollectReturn)

\* spans whose timestamps are not set: a batch of two and a batch of one
Batch00 == <<ResourceSpans(Named("a"), <<<<Span0, Span0>>>>)>>

Batch0 == <<ResourceSpans(Named("a"), <<<<Span0>>>>)>>

InitFair == InitWith({Batch00, Batch0}, MaxSpans)

SpecFair == InitFair /\ [][Next]_vars /\ Fairness

\* a PushSpans call is over: it returned nil or it panicked
Over(p) == pc[p] \in {"idle", "panicResource", "panicStatus"}

\* C22: every PushSpans call that is under way comes to its end, every cycle
\* that is under way returns, one that an Append failed included, and the
\* mutex is always freed again.
C22_NoOperationBlocksForever ==
    /\ \A p \in Pushers : ~Over(p) ~> Over(p)
    /\ \A p \in Pushers : (pc[p] = "run" /\ sinkFailed) ~> Over(p)
    /\ (cpc # "idle") ~> (cpc = "idle")
    /\ (mtx # "free") ~> (mtx = "free")

====
